---- MODULE Spec2Model ----
(***************************************************************************)
(* Account ledger service: AccountService (account_service.py) running on  *)
(* one AsyncSession per request against a PostgreSQL store at its default  *)
(* isolation level (READ COMMITTED).  Each `await self.db.execute(...)`,   *)
(* `await self.db.commit()` and `await self.db.rollback()` is one atomic   *)
(* step of a request; requests of different sessions interleave between    *)
(* steps.  Money is counted in half cents (0.005), so that Decimal           *)
(* arithmetic is exact integer arithmetic and an amount may carry a third   *)
(* decimal place, which the Numeric(10, 2) balance column rounds away.      *)
(*                                                                         *)
(* Around the service: the owner-checking endpoints of                     *)
(* account_controller.py (ApiSpec); the TokenStorage object of consumer.py *)
(* under calls of its writers (CacheSpec); process_token_message handling  *)
(* the messages the broker delivers (ConsumerSpec); and get_current_user   *)
(* with TokenValidator.validate_token reading that storage (AuthSpec);     *)
(* and the task consume_token_messages connecting to the broker and        *)
(* staying subscribed (ConnectionSpec, ConnectionLiveSpec).                *)
(***************************************************************************)
EXTENDS Integers, Sequences, FiniteSets, TLC

\* ------------------------------------------------------------------ bounds
NumSessions == 2      \* concurrent requests (one AsyncSession each)
MaxId       == 2      \* ids the accounts_id_seq sequence hands out
MaxUser     == 2      \* user ids appearing in requests
MaxAmount   == 2      \* largest amount / balance a request carries
MaxBalance  == 4      \* |balance| the Numeric column stores (scaled down)
MaxRequests == 2      \* requests served in one behaviour
MaxCacheOps == 4      \* calls made on the TokenStorage object
MaxDeliveries == 2    \* messages the broker delivers to the consumer
MaxOutages  == 2      \* times the broker becomes unreachable

max_retries == 5      \* consume_token_messages: connection attempts

Cent == 2             \* one cent (the scale of Numeric(10, 2)) in units

Sessions      == 1..NumSessions
Ids           == 1..MaxId
Users         == 1..MaxUser
Amounts       == (-1)..MaxAmount
BalanceInputs == (-1)..MaxAmount
Unset         == -2   \* AccountUpdate.balance is None

\* ------------------------------------------------------------------- state
VARIABLES
    rows,      \* committed accounts table: id -> [user_id, balance, created_at]
    nextId,    \* next value of the id sequence
    tx,        \* per session: uncommitted writes, id -> [del, row]
    req,       \* per session: the request in flight (position and locals)
    applied,   \* per session: writes the current request has committed
    calls,     \* requests started so far
    token_storage,    \* the TokenStorage object: tokens and user_tokens maps
    clock,            \* datetime.now(): TokenStorage calls / deliveries so far
    storage_call,     \* the last call made on the TokenStorage object
    delivery,         \* the last message handed to process_token_message
    auth,             \* the last call of get_current_user
    token_validator,  \* the module-level TokenValidator (FALSE: None)
    consumer,         \* the task consume_token_messages: position and locals
    broker            \* whether RabbitMQ is reachable, and its outages so far

ledgerVars == <<rows, nextId, tx, req, applied, calls>>

connVars == <<consumer, broker>>

authVars == <<token_storage, clock, storage_call, delivery, auth,
              token_validator, consumer, broker>>

vars == <<rows, nextId, tx, req, applied, calls, token_storage, clock,
          storage_call, delivery, auth, token_validator, consumer, broker>>

NoRec == [id |-> 0, user_id |-> 0, balance |-> 0, created_at |-> 0]
NoTx  == [i \in {} |-> 0]

Idle == [op |-> "none", pc |-> "idle", account_id |-> 0, to_account_id |-> 0,
         amount |-> 0, user_id |-> 0, balance |-> 0, rec |-> NoRec,
         from_rec |-> NoRec, exc |-> "none", outcome |-> "none",
         exc_account |-> 0, rollbacks |-> 0, commits |-> 0,
         caller |-> 0, body_user_id |-> 0]


\* ------------------------------------------------- token cache: the data
\* A token is a string; it is kept as the sequence of its parts so that the
\* "Bearer " prefix can be tested and cut off: <<"Bearer ", "a">> is the
\* string "Bearer a", <<>> the empty string.
Bearer == "Bearer "

TokenStrings == {<<>>, <<"a">>, <<"b">>, <<Bearer, "a">>}

\* The values `token_data.get(...)` yields for a key the event lacks (None).
NoToken == <<"None">>
NoUser  == -1
NoName  == "None"

\* token_data: the JSON object of a token event.  A field holding its None
\* value is a key the object does not have.
TokenData == [token    : TokenStrings \cup {NoToken},
              user_id  : (0..MaxUser) \cup {NoUser},
              username : {"ana", NoName}]

\* `self.tokens = {}` and `self.user_tokens = {}`
EmptyStorage == [tokens |-> [t \in {} |-> 0], user_tokens |-> [u \in {} |-> 0]]

\* `self.tokens.get(token)` of a token that is not cached (None)
NoEntry == [user_id |-> NoUser, username |-> NoName, received_at |-> -1]

NoStorageCall == [op |-> "none", token |-> NoToken, user_id |-> NoUser,
                  username |-> NoName, old_token |-> NoToken]

NoDelivery == [kind |-> "none", token |-> NoToken, user_id |-> NoUser,
               username |-> NoName, stores |-> 0, raised |-> "none",
               escaped |-> FALSE, settled |-> "none", queue |-> "none"]

NoAuth == [token |-> NoToken, source |-> "none", user_id |-> NoUser,
          username |-> NoName, status |-> 0, validator_calls |-> 0,
          validated |-> 0, validator |-> "none"]

\* The consumer task before start_rabbitmq_consumer creates it.  attempt:
\* the loop variable; attempts: calls of connect_robust made; consumed:
\* queue.consume has been reached; cancelled: the task has been cancelled.
NotStarted == [state |-> "DISCONNECTED", attempt |-> 0, attempts |-> 0,
               consumed |-> FALSE, cancelled |-> FALSE, reconnects |-> 0]

\* The task once `await queue.consume(process_token_message)` has returned
\* at its first attempt.
Consuming == [NotStarted EXCEPT !.state = "CONSUMING", !.attempts = 1,
                                !.consumed = TRUE]

BrokerUp == [reachable |-> TRUE, outages |-> 0]

\* The module-level objects as the import of consumer.py, auth_dependency.py
\* and token_validator.py leaves them.
AuthIdle ==
    /\ token_storage = EmptyStorage
    /\ clock = 0
    /\ storage_call = NoStorageCall
    /\ delivery = NoDelivery
    /\ auth = NoAuth
    /\ token_validator = FALSE

\* The consumer task not yet created.
ConsumerIdle == consumer = NotStarted /\ broker = BrokerUp

\* The consumer task subscribed to account_auth_queue.
Subscribed == consumer = Consuming /\ broker = BrokerUp

\* ----------------------------------------------------------------- helpers
\* A result row as the RETURNING clause / fetchone() hands it back.
Rec(id, row) == [id |-> id, user_id |-> row.user_id, balance |-> row.balance,
                 created_at |-> row.created_at]

\* Rows a statement of session p sees: committed rows overlaid with p's own
\* uncommitted writes.
Visible(p, id) ==
    IF id \in DOMAIN tx[p] THEN ~tx[p][id].del ELSE id \in DOMAIN rows

RowOf(p, id) ==
    IF id \in DOMAIN tx[p] THEN tx[p][id].row ELSE rows[id]

\* (mutant) no statement ever waits for a row lock
Locked_never(p, id) == FALSE

\* A committed row with an uncommitted UPDATE/DELETE of another session is
\* row-locked: a second writer waits for that transaction to end.
Locked(p, id) ==
    /\ id \in DOMAIN rows
    /\ \E q \in Sessions \ {p} : id \in DOMAIN tx[q]

\* The Numeric(10, 2) column rejects values out of its range.
Fits(b) == b <= MaxBalance /\ -b <= MaxBalance

\* The Numeric(10, 2) column rounds a value to two decimal places, halves
\* away from zero.
Quantize(x) ==
    LET a == IF x < 0 THEN -x ELSE x
        q == a \div Cent
        r == a % Cent
        n == IF 2 * r >= Cent THEN (q + 1) * Cent ELSE q * Cent
    IN  IF x < 0 THEN -n ELSE n

\* decimal_places=2 of the pydantic fields
TwoPlaces(x) == x % Cent = 0

\* ------------------------------------------------- business rules (pure)
\* (mutant) a zero amount passes the check
InvalidAmount_neg(amount) == amount < 0

\* `if amount <= 0: raise InvalidAmountException(amount)`
InvalidAmount(amount) == amount <= 0

\* (mutant) the check lets an overdraft of one cent through
Insufficient_off(balance, amount) == balance < amount - 1

\* (mutant) the check is never made
Insufficient_never(balance, amount) == FALSE

\* (mutant) the check refuses a withdrawal of the exact balance
Insufficient_strict(balance, amount) == balance <= amount

\* `if current_account.balance < amount: raise InsufficientBalanceException`
Insufficient(balance, amount) == balance < amount

\* (mutant) the update overwrites the balance with the amount
DepositValue_overwrite(balance, amount) == amount

\* `.values(balance=accounts.c.balance + amount)`
DepositValue(balance, amount) == balance + amount

\* (mutant) the operands of the subtraction are swapped
WithdrawValue_swap(balance, amount) == amount - balance

\* `.values(balance=accounts.c.balance - amount)`
WithdrawValue(balance, amount) == balance - amount

\* `balance: Decimal = Field(0, ge=0, ...)` of AccountBase / AccountUpdate
ValidBalance(b) == b >= 0 /\ TwoPlaces(b)

\* (mutant) the query compares the id column with the user id
ByUser_id(p, user_id) ==
    {id \in Ids : Visible(p, id) /\ id = user_id}

\* `select(accounts).where(accounts.c.user_id == user_id)` as session p sees it
ByUser(p, user_id) ==
    {id \in Ids : Visible(p, id) /\ RowOf(p, id).user_id = user_id}

\* ------------------------------------------------------- session plumbing
NoApplied == [delta |-> [i \in Ids |-> 0], ins |-> {}, del |-> {}]

\* Statements of withdraw / deposit that run inside transfer's try block.
TryPcs == {"w_get", "w_upd", "w_commit", "dep_upd", "dep_commit"}

\* An exception leaving the current statement of request r: inside transfer's
\* try block it is caught (rollback, then re-raised); elsewhere it ends the
\* service call.
Raised(r, exc, acct) ==
    IF r.op = "transfer" /\ r.pc \in TryPcs
    THEN [r EXCEPT !.pc = "t_rollback", !.exc = exc, !.exc_account = acct]
    ELSE [r EXCEPT !.pc = "done", !.outcome = exc, !.exc_account = acct]

\* The committed table after session p's COMMIT.
Committed(p) ==
    LET w    == tx[p]
        keep == (DOMAIN rows \cup {i \in DOMAIN w : ~w[i].del})
                    \ {i \in DOMAIN w : w[i].del}
    IN  [i \in keep |-> IF i \in DOMAIN w THEN w[i].row ELSE rows[i]]

\* What that COMMIT made durable, added to the request's record of it.
AppliedAfter(p) ==
    LET w == tx[p]
        a == applied[p]
    IN  [delta |-> [i \in Ids |->
                      IF i \in DOMAIN w /\ ~w[i].del /\ i \in DOMAIN rows
                      THEN a.delta[i] + w[i].row.balance - rows[i].balance
                      ELSE a.delta[i]],
         ins   |-> a.ins \cup {i \in DOMAIN w : ~w[i].del /\ i \notin DOMAIN rows},
         del   |-> a.del \cup {i \in DOMAIN w : w[i].del /\ i \in DOMAIN rows}]

\* (mutant) the commit leaves the transaction, and its row locks, open
Commit_hold(p) ==
    /\ rows' = rows
    /\ applied' = applied
    /\ tx' = tx

\* `await self.db.commit()`
Commit(p) ==
    /\ rows' = Committed(p)
    /\ applied' = [applied EXCEPT ![p] = AppliedAfter(p)]
    /\ tx' = [tx EXCEPT ![p] = NoTx]

\* The request of session p after one more `await self.db.commit()`.
Counted(p) == [req[p] EXCEPT !.commits = @ + 1]

\* An uncommitted write of session p to row id.
Write(p, id, row, del) ==
    [i \in DOMAIN tx[p] \cup {id} |->
        IF i = id THEN [del |-> del, row |-> row] ELSE tx[p][i]]

\* --------------------------------------------------------------- Init
\* Tables the service leaves behind when requests run one after another:
\* ids below the sequence value, one account per user, balances >= 0.
InitTables ==
    UNION {{t \in [S -> [user_id : Users,
                         balance : {b \in 0..MaxAmount : TwoPlaces(b)},
                         created_at : Ids]] :
              /\ \A i \in S : t[i].created_at = i
              /\ \A i, j \in S : i # j => t[i].user_id # t[j].user_id}
           : S \in SUBSET Ids}

Init ==
    /\ rows \in InitTables
    /\ nextId \in 1..(MaxId + 1)
    /\ \A i \in DOMAIN rows : i < nextId
    /\ calls = 0
    /\ tx = [p \in Sessions |-> NoTx]
    /\ req = [p \in Sessions |-> Idle]
    /\ applied = [p \in Sessions |-> NoApplied]
    /\ AuthIdle
    /\ ConsumerIdle

\* A request of session p starts: the fields it is called with.
Started(op, pc, account_id, to_account_id, amount, user_id, balance) ==
    [Idle EXCEPT !.op = op, !.pc = pc, !.account_id = account_id,
                 !.to_account_id = to_account_id, !.amount = amount,
                 !.user_id = user_id, !.balance = balance]

Finished(r, outcome) == [r EXCEPT !.pc = "done", !.outcome = outcome]

\* Creations that still have to draw an id from the sequence.
PendingInserts ==
    Cardinality({q \in Sessions : req[q].pc \in {"c_check", "c_insert"}})

\* ------------------------------------------------------ create_account
\* AccountCreate(user_id, balance) is validated, then create_account is called.
create_account_call(p) ==
    /\ req[p].pc = "idle"
    /\ calls < MaxRequests
    /\ calls' = calls + 1
    /\ nextId + PendingInserts <= MaxId
    /\ \E u \in Users, b \in BalanceInputs :
         req' = [req EXCEPT ![p] =
                   IF ValidBalance(b)
                   THEN Started("create", "c_check", 0, 0, 0, u, b)
                   ELSE Finished(Started("create", "idle", 0, 0, 0, u, b),
                                 "ValidationError")]
    /\ UNCHANGED <<rows, nextId, tx, applied, authVars>>

\* existing_query: a row of that user makes the call raise Duplicate.
create_account_check(p) ==
    /\ req[p].pc = "c_check"
    /\ req' = [req EXCEPT ![p] =
                 IF ByUser(p, req[p].user_id) # {}
                 THEN Raised(req[p], "Duplicate", 0)
                 ELSE [req[p] EXCEPT !.pc = "c_insert"]]
    /\ UNCHANGED <<rows, nextId, tx, applied, calls, authVars>>

\* accounts.insert().values(user_id, balance).returning(accounts)
create_account_insert(p) ==
    /\ req[p].pc = "c_insert"
    /\ nextId <= MaxId
    /\ LET row == [user_id |-> req[p].user_id,
                   balance |-> Quantize(req[p].balance),
                   created_at |-> nextId]
       IN  /\ tx' = [tx EXCEPT ![p] = Write(p, nextId, row, FALSE)]
           /\ req' = [req EXCEPT ![p].pc = "c_commit",
                                 ![p].rec = Rec(nextId, row)]
    /\ nextId' = nextId + 1
    /\ UNCHANGED <<rows, applied, calls, authVars>>

create_account_commit(p) ==
    /\ req[p].pc = "c_commit"
    /\ Commit(p)
    /\ req' = [req EXCEPT ![p] = Finished(Counted(p), "ok")]
    /\ UNCHANGED <<nextId, calls, authVars>>

\* ------------------------------------------------------ update_account
update_account_call(p) ==
    /\ req[p].pc = "idle"
    /\ calls < MaxRequests
    /\ calls' = calls + 1
    /\ \E id \in Ids, b \in BalanceInputs \cup {Unset} :
         req' = [req EXCEPT ![p] =
                   IF b = Unset \/ ValidBalance(b)
                   THEN Started("update", "u_get", id, 0, 0, 0, b)
                   ELSE Finished(Started("update", "idle", id, 0, 0, 0, b),
                                 "ValidationError")]
    /\ UNCHANGED <<rows, nextId, tx, applied, authVars>>

\* (mutant) the UPDATE statement is issued whatever the body carries
update_account_get_always(p) ==
    /\ req[p].pc = "u_get"
    /\ req' = [req EXCEPT ![p] =
                 IF ~Visible(p, req[p].account_id)
                 THEN Raised(req[p], "NotFound", req[p].account_id)
                 ELSE [req[p] EXCEPT !.pc = "u_upd"]]
    /\ UNCHANGED <<rows, nextId, tx, applied, calls, authVars>>

\* await self.get_account_by_id(account_id)
update_account_get(p) ==
    /\ req[p].pc = "u_get"
    /\ req' = [req EXCEPT ![p] =
                 IF ~Visible(p, req[p].account_id)
                 THEN Raised(req[p], "NotFound", req[p].account_id)
                 ELSE [req[p] EXCEPT !.pc = IF req[p].balance # Unset
                                            THEN "u_upd" ELSE "u_reget"]]
    /\ UNCHANGED <<rows, nextId, tx, applied, calls, authVars>>

\* update(accounts).where(id == account_id).values(balance=...).returning
update_account_execute(p) ==
    LET id == req[p].account_id IN
    /\ req[p].pc = "u_upd"
    /\ ~Locked(p, id)
    /\ IF Visible(p, id)
       THEN LET row == [RowOf(p, id) EXCEPT !.balance = Quantize(req[p].balance)]
            IN  /\ tx' = [tx EXCEPT ![p] = Write(p, id, row, FALSE)]
                /\ req' = [req EXCEPT ![p].pc = "u_commit",
                                      ![p].rec = Rec(id, row)]
       ELSE /\ tx' = tx
            /\ req' = [req EXCEPT ![p].pc = "u_commit", ![p].rec = NoRec]
    /\ UNCHANGED <<rows, nextId, applied, calls, authVars>>

\* commit, then AccountResponse(**account_record._asdict())
update_account_commit(p) ==
    /\ req[p].pc = "u_commit"
    /\ Commit(p)
    /\ req' = [req EXCEPT ![p] =
                 IF Counted(p).rec = NoRec
                 THEN Raised(Counted(p), "AttributeError", 0)
                 ELSE Finished(Counted(p), "ok")]
    /\ UNCHANGED <<nextId, calls, authVars>>

\* `return await self.get_account_by_id(account_id)` of an empty update
update_account_reget(p) ==
    LET id == req[p].account_id IN
    /\ req[p].pc = "u_reget"
    /\ req' = [req EXCEPT ![p] =
                 IF ~Visible(p, id)
                 THEN Raised(req[p], "NotFound", id)
                 ELSE Finished([req[p] EXCEPT !.rec = Rec(id, RowOf(p, id))],
                               "ok")]
    /\ UNCHANGED <<rows, nextId, tx, applied, calls, authVars>>

\* ------------------------------------------------------ delete_account
delete_account_call(p) ==
    /\ req[p].pc = "idle"
    /\ calls < MaxRequests
    /\ calls' = calls + 1
    /\ \E id \in Ids :
         req' = [req EXCEPT ![p] = Started("delete", "d_get", id, 0, 0, 0, 0)]
    /\ UNCHANGED <<rows, nextId, tx, applied, authVars>>

delete_account_get(p) ==
    /\ req[p].pc = "d_get"
    /\ req' = [req EXCEPT ![p] =
                 IF ~Visible(p, req[p].account_id)
                 THEN Raised(req[p], "NotFound", req[p].account_id)
                 ELSE [req[p] EXCEPT !.pc = "d_del"]]
    /\ UNCHANGED <<rows, nextId, tx, applied, calls, authVars>>

\* accounts.delete().where(id == account_id)
delete_account_execute(p) ==
    LET id == req[p].account_id IN
    /\ req[p].pc = "d_del"
    /\ ~Locked(p, id)
    /\ tx' = IF Visible(p, id)
             THEN [tx EXCEPT ![p] = Write(p, id, RowOf(p, id), TRUE)]
             ELSE tx
    /\ req' = [req EXCEPT ![p].pc = "d_commit"]
    /\ UNCHANGED <<rows, nextId, applied, calls, authVars>>

delete_account_commit(p) ==
    /\ req[p].pc = "d_commit"
    /\ Commit(p)
    /\ req' = [req EXCEPT ![p] = Finished(Counted(p), "ok")]
    /\ UNCHANGED <<nextId, calls, authVars>>

\* --------------------------------------------------------------- deposit
\* The account a deposit statement targets: transfer deposits to the
\* destination.
DepositTarget(r) == IF r.op = "transfer" THEN r.to_account_id ELSE r.account_id

deposit_call(p) ==
    /\ req[p].pc = "idle"
    /\ calls < MaxRequests
    /\ calls' = calls + 1
    /\ \E id \in Ids, a \in Amounts :
         req' = [req EXCEPT ![p] =
                   IF InvalidAmount(a)
                   THEN Finished(Started("deposit", "idle", id, 0, a, 0, 0),
                                 "InvalidAmount")
                   ELSE Started("deposit", "dep_upd", id, 0, a, 0, 0)]
    /\ UNCHANGED <<rows, nextId, tx, applied, authVars>>

\* update(accounts).where(id == account_id)
\*     .values(balance=accounts.c.balance + amount).returning(accounts)
\* and `if not account_record: raise AccountNotFoundException`
deposit_execute(p) ==
    LET id == DepositTarget(req[p]) IN
    /\ req[p].pc = "dep_upd"
    /\ ~Locked(p, id)
    /\ IF ~Visible(p, id)
       THEN /\ req' = [req EXCEPT ![p] = Raised(req[p], "NotFound", id)]
            /\ tx' = tx
       ELSE LET new == Quantize(DepositValue(RowOf(p, id).balance,
                                            req[p].amount))
                row == [RowOf(p, id) EXCEPT !.balance = new]
            IN  IF Fits(new)
                THEN /\ tx' = [tx EXCEPT ![p] = Write(p, id, row, FALSE)]
                     /\ req' = [req EXCEPT ![p].pc = "dep_commit",
                                           ![p].rec = Rec(id, row)]
                ELSE /\ req' = [req EXCEPT ![p] = Raised(req[p], "StoreError", 0)]
                     /\ tx' = tx
    /\ UNCHANGED <<rows, nextId, applied, calls, authVars>>

\* commit, then the updated account is returned (to transfer: its result)
deposit_commit(p) ==
    /\ req[p].pc = "dep_commit"
    /\ Commit(p)
    /\ req' = [req EXCEPT ![p] = Finished(Counted(p), "ok")]
    /\ UNCHANGED <<nextId, calls, authVars>>

\* -------------------------------------------------------------- withdraw
withdraw_call(p) ==
    /\ req[p].pc = "idle"
    /\ calls < MaxRequests
    /\ calls' = calls + 1
    /\ \E id \in Ids, a \in Amounts :
         req' = [req EXCEPT ![p] =
                   IF InvalidAmount(a)
                   THEN Finished(Started("withdraw", "idle", id, 0, a, 0, 0),
                                 "InvalidAmount")
                   ELSE Started("withdraw", "w_get", id, 0, a, 0, 0)]
    /\ UNCHANGED <<rows, nextId, tx, applied, authVars>>

\* current_account = await self.get_account_by_id(account_id), then the
\* balance check
withdraw_get(p) ==
    LET id == req[p].account_id IN
    /\ req[p].pc = "w_get"
    /\ req' = [req EXCEPT ![p] =
                 IF ~Visible(p, id)
                 THEN Raised(req[p], "NotFound", id)
                 ELSE IF Insufficient(RowOf(p, id).balance, req[p].amount)
                 THEN Raised(req[p], "InsufficientBalance", id)
                 ELSE [req[p] EXCEPT !.pc = "w_upd"]]
    /\ UNCHANGED <<rows, nextId, tx, applied, calls, authVars>>

\* update(accounts).where(id == account_id)
\*     .values(balance=accounts.c.balance - amount).returning(accounts)
withdraw_execute(p) ==
    LET id == req[p].account_id IN
    /\ req[p].pc = "w_upd"
    /\ ~Locked(p, id)
    /\ IF ~Visible(p, id)
       THEN /\ req' = [req EXCEPT ![p].pc = "w_commit", ![p].rec = NoRec]
            /\ tx' = tx
       ELSE LET new == Quantize(WithdrawValue(RowOf(p, id).balance,
                                             req[p].amount))
                row == [RowOf(p, id) EXCEPT !.balance = new]
            IN  IF Fits(new)
                THEN /\ tx' = [tx EXCEPT ![p] = Write(p, id, row, FALSE)]
                     /\ req' = [req EXCEPT ![p].pc = "w_commit",
                                           ![p].rec = Rec(id, row)]
                ELSE /\ req' = [req EXCEPT ![p] = Raised(req[p], "StoreError", 0)]
                     /\ tx' = tx
    /\ UNCHANGED <<rows, nextId, applied, calls, authVars>>

\* commit, then AccountResponse(**account_record._asdict()); inside transfer
\* the result is from_account and the deposit follows
withdraw_commit(p) ==
    /\ req[p].pc = "w_commit"
    /\ Commit(p)
    /\ req' = [req EXCEPT ![p] =
                 IF Counted(p).rec = NoRec
                 THEN Raised(Counted(p), "AttributeError", 0)
                 ELSE IF Counted(p).op = "transfer"
                 THEN [Counted(p) EXCEPT !.pc = "dep_upd",
                                         !.from_rec = Counted(p).rec,
                                         !.rec = NoRec]
                 ELSE Finished(Counted(p), "ok")]
    /\ UNCHANGED <<nextId, calls, authVars>>

\* -------------------------------------------------------------- transfer
transfer_call(p) ==
    /\ req[p].pc = "idle"
    /\ calls < MaxRequests
    /\ calls' = calls + 1
    /\ \E from \in Ids, to \in Ids, a \in Amounts :
         req' = [req EXCEPT ![p] =
                   IF InvalidAmount(a)
                   THEN Finished(Started("transfer", "idle", from, to, a, 0, 0),
                                 "InvalidAmount")
                   ELSE Started("transfer", "t_get_from", from, to, a, 0, 0)]
    /\ UNCHANGED <<rows, nextId, tx, applied, authVars>>

\* await self.get_account_by_id(from_account_id)  (before the try block)
transfer_get_from(p) ==
    /\ req[p].pc = "t_get_from"
    /\ req' = [req EXCEPT ![p] =
                 IF ~Visible(p, req[p].account_id)
                 THEN Raised(req[p], "NotFound", req[p].account_id)
                 ELSE [req[p] EXCEPT !.pc = "t_get_to"]]
    /\ UNCHANGED <<rows, nextId, tx, applied, calls, authVars>>

\* await self.get_account_by_id(to_account_id)  (before the try block)
transfer_get_to(p) ==
    /\ req[p].pc = "t_get_to"
    /\ req' = [req EXCEPT ![p] =
                 IF ~Visible(p, req[p].to_account_id)
                 THEN Raised(req[p], "NotFound", req[p].to_account_id)
                 ELSE [req[p] EXCEPT !.pc = "w_get"]]
    /\ UNCHANGED <<rows, nextId, tx, applied, calls, authVars>>

\* except Exception as e: await self.db.rollback(); raise e
transfer_rollback(p) ==
    /\ req[p].pc = "t_rollback"
    /\ tx' = [tx EXCEPT ![p] = NoTx]
    /\ req' = [req EXCEPT ![p] =
                 Finished([req[p] EXCEPT !.rollbacks = @ + 1], req[p].exc)]
    /\ UNCHANGED <<rows, nextId, applied, calls, authVars>>

\* ------------------------------------------------------------ environment
\* The awaited store call (execute, commit or rollback) raises instead of
\* taking effect: connection lost, statement timeout.
store_error(p) ==
    /\ req[p].pc \notin {"idle", "done"}
    /\ req' = [req EXCEPT ![p] =
                 IF req[p].pc = "t_rollback"
                 THEN Finished([req[p] EXCEPT !.rollbacks = @ + 1],
                               "StoreError")
                 ELSE Raised(req[p], "StoreError", 0)]
    /\ UNCHANGED <<rows, nextId, tx, applied, calls, authVars>>

\* The request is over: get_db closes the session, which discards whatever
\* the session had not committed.
finish(p) ==
    /\ req[p].pc = "done"
    /\ req' = [req EXCEPT ![p] = Idle]
    /\ tx' = [tx EXCEPT ![p] = NoTx]
    /\ applied' = [applied EXCEPT ![p] = NoApplied]
    /\ UNCHANGED <<rows, nextId, calls, authVars>>

\* ------------------------------------------------------- specifications
\* A new request arrives at session p.
Call(p) ==
    \/ create_account_call(p) \/ update_account_call(p)
    \/ delete_account_call(p) \/ deposit_call(p) \/ withdraw_call(p)
    \/ transfer_call(p)

\* The request of session p takes its next step.
Body(p) ==
    \/ create_account_check(p) \/ create_account_insert(p)
    \/ create_account_commit(p)
    \/ update_account_get(p) \/ update_account_execute(p)
    \/ update_account_commit(p) \/ update_account_reget(p)
    \/ delete_account_get(p) \/ delete_account_execute(p)
    \/ delete_account_commit(p)
    \/ deposit_execute(p) \/ deposit_commit(p)
    \/ withdraw_get(p) \/ withdraw_execute(p) \/ withdraw_commit(p)
    \/ transfer_get_from(p) \/ transfer_get_to(p) \/ transfer_rollback(p)
    \/ store_error(p)
    \/ finish(p)

\* Requests of all sessions interleave at every await.
Next == \E p \in Sessions : Call(p) \/ Body(p)

Spec == Init /\ [][Next]_vars

\* Requests executed one at a time: a request starts only when no other
\* request is in flight.
Quiet == \A q \in Sessions : req[q].pc = "idle"

SeqNext ==
    \E p \in Sessions :
        \/ Quiet /\ create_account_call(p)
        \/ Quiet /\ update_account_call(p)
        \/ Quiet /\ delete_account_call(p)
        \/ Quiet /\ deposit_call(p)
        \/ Quiet /\ withdraw_call(p)
        \/ Quiet /\ transfer_call(p)
        \/ Body(p)

SeqSpec == Init /\ [][SeqNext]_vars

\* A statement of a transfer of session p, as the service executes it.
transfer_step(p) ==
    \/ transfer_get_from(p) \/ transfer_get_to(p)
    \/ withdraw_get(p) \/ withdraw_execute(p) \/ withdraw_commit(p)
    \/ deposit_execute(p) \/ deposit_commit(p)
    \/ transfer_rollback(p)
    \/ finish(p)

\* Accounts 1 and 2 exist, owned by users 1 and 2; nothing is in flight.
TransferInit ==
    /\ \E b1, b2 \in {0, Cent} :
          rows = [i \in {1, 2} |->
                    [user_id |-> i, balance |-> IF i = 1 THEN b1 ELSE b2,
                     created_at |-> i]]
    /\ nextId = 3
    /\ calls = 0
    /\ tx = [p \in Sessions |-> NoTx]
    /\ req = [p \in Sessions |-> Idle]
    /\ applied = [p \in Sessions |-> NoApplied]
    /\ AuthIdle
    /\ ConsumerIdle

\* transfer(from, to, amount) is called on session p: from account 1 to
\* account 2 on the sessions of odd number, from 2 to 1 on the others, one
\* cent each (covered or not by the balance of the source).
transfer_opposite_call(p) ==
    LET from == IF p % 2 = 1 THEN 1 ELSE 2
        to   == IF p % 2 = 1 THEN 2 ELSE 1
    IN  /\ req[p].pc = "idle"
        /\ calls < MaxRequests
        /\ calls' = calls + 1
        /\ \E a \in {Cent} :
             req' = [req EXCEPT ![p] =
                       IF InvalidAmount(a)
                       THEN Finished(Started("transfer", "idle", from, to, a,
                                             0, 0), "InvalidAmount")
                       ELSE Started("transfer", "t_get_from", from, to, a,
                                    0, 0)]
        /\ UNCHANGED <<rows, nextId, tx, applied, authVars>>

\* Concurrent transfers between accounts 1 and 2 in both directions, each on
\* its own session.
TransferNext ==
    \E p \in Sessions :
        transfer_opposite_call(p) \/ transfer_step(p) \/ store_error(p)

TransferSpec == TransferInit /\ [][TransferNext]_vars

\* The event loop resumes every task whose awaited statement can complete,
\* and the store hands a released row lock to a waiting statement.  A failure
\* of the store may happen and is never bound to.
TransferLiveSpec ==
    TransferSpec /\ \A p \in Sessions : WF_vars(transfer_step(p))

\* Account 1 exists with an empty balance; nothing is in flight.
DepositInit ==
    /\ rows = [i \in {1} |-> [user_id |-> 1, balance |-> 0, created_at |-> 1]]
    /\ nextId = 2
    /\ calls = 0
    /\ tx = [p \in Sessions |-> NoTx]
    /\ req = [p \in Sessions |-> Idle]
    /\ applied = [p \in Sessions |-> NoApplied]
    /\ AuthIdle
    /\ ConsumerIdle

\* deposit(1, amount) with amount > 0 is called on session p.
deposit_same_call(p) ==
    /\ req[p].pc = "idle"
    /\ req[p].op = "none"
    /\ \E a \in 1..MaxAmount :
         req' = [req EXCEPT ![p] =
                   IF InvalidAmount(a)
                   THEN Finished(Started("deposit", "idle", 1, 0, a, 0, 0),
                                 "InvalidAmount")
                   ELSE Started("deposit", "dep_upd", 1, 0, a, 0, 0)]
    /\ UNCHANGED <<rows, nextId, tx, applied, calls, authVars>>

\* Concurrent deposits on account 1, one on each session.
DepositNext ==
    \E p \in Sessions :
        \/ deposit_same_call(p)
        \/ deposit_execute(p)
        \/ deposit_commit(p)
        \/ store_error(p)

DepositSpec == DepositInit /\ [][DepositNext]_vars

\* The task running the request of session p is cancelled (client gone, a
\* timeout around the call) while it is suspended at an await: CancelledError
\* is raised there.  It is not an Exception, so transfer's
\* `except Exception` does not catch it and no rollback runs; what the
\* request had committed stays committed.
cancel(p) ==
    /\ req[p].pc \notin {"idle", "done"}
    /\ req' = [req EXCEPT ![p] = Finished(req[p], "Cancelled")]
    /\ UNCHANGED <<rows, nextId, tx, applied, calls, authVars>>

\* Requests one at a time, each of which may be cancelled at any await.
CancelNext == SeqNext \/ \E p \in Sessions : cancel(p)

CancelSpec == Init /\ [][CancelNext]_vars



\* ============================================================= controller
\* The endpoints of account_controller.py that check the owner of the
\* account before they call the service.  The request keeps the caller's
\* identity, current_user["user_id"], in its user_id field.
OwnerScoped == {"get", "update", "delete", "deposit", "withdraw", "transfer"}

\* (mutant) the check compares the account id with the caller's user id
Owns_id(account, current_user_id) == account.id = current_user_id

\* `if account.user_id != current_user["user_id"]: raise HTTPException(403)`
Owns(account, current_user_id) == account.user_id = current_user_id

\* The request at the first statement of the service method its endpoint
\* calls once the owner check has passed (GET returns the account read).
ServiceEntry(r, account) ==
    CASE r.op = "get"      -> Finished([r EXCEPT !.rec = account], "ok")
      [] r.op = "update"   -> [r EXCEPT !.pc = "u_get"]
      [] r.op = "delete"   -> [r EXCEPT !.pc = "d_get"]
      [] r.op = "deposit"  -> IF InvalidAmount(r.amount)
                              THEN Finished(r, "InvalidAmount")
                              ELSE [r EXCEPT !.pc = "dep_upd"]
      [] r.op = "withdraw" -> IF InvalidAmount(r.amount)
                              THEN Finished(r, "InvalidAmount")
                              ELSE [r EXCEPT !.pc = "w_get"]
      [] r.op = "transfer" -> IF InvalidAmount(r.amount)
                              THEN Finished(r, "InvalidAmount")
                              ELSE [r EXCEPT !.pc = "t_get_from"]

\* The status code the endpoint of request r answers its outcome with: the
\* except clauses of the endpoint, and the status the exception carries when
\* `except HTTPException: raise` passes it on.
status_code(r) ==
    CASE r.outcome = "ok" -> IF r.op = "delete" THEN 204
                             ELSE IF r.op = "create" THEN 201 ELSE 200
      [] r.outcome = "Forbidden" -> 403
      [] r.outcome = "ValidationError" -> 422
      [] r.outcome = "NotFound" ->
             IF r.op \in {"withdraw", "transfer"} THEN 400 ELSE 404
      [] r.outcome = "InvalidAmount" -> 400
      [] r.outcome = "InsufficientBalance" ->
             IF r.op \in {"withdraw", "transfer"} THEN 400 ELSE 422
      [] r.outcome = "Duplicate" -> IF r.op = "create" THEN 400 ELSE 409
      [] OTHER -> 500

\* An owner-checking endpoint is called by user u: FastAPI validates the
\* parameters (amount: Query(gt=0); the AccountUpdate body), then the handler
\* starts with service.get_account_by_id(account_id).
Endpoint(p, op, u, id, to, a, b, valid) ==
    /\ req[p].pc = "idle"
    /\ calls < MaxRequests
    /\ calls' = calls + 1
    /\ req' = [req EXCEPT ![p] =
                 IF valid
                 THEN Started(op, "ctl_get", id, to, a, u, b)
                 ELSE Finished(Started(op, "idle", id, to, a, u, b),
                               "ValidationError")]
    /\ UNCHANGED <<rows, nextId, tx, applied, authVars>>

\* GET /accounts/{account_id}
get_account_by_id_endpoint(p) ==
    \E u \in Users, id \in Ids : Endpoint(p, "get", u, id, 0, 0, 0, TRUE)

\* PUT /accounts/{account_id}
update_account_endpoint(p) ==
    \E u \in Users, id \in Ids, b \in BalanceInputs \cup {Unset} :
        Endpoint(p, "update", u, id, 0, 0, b, b = Unset \/ ValidBalance(b))

\* DELETE /accounts/{account_id}
delete_account_endpoint(p) ==
    \E u \in Users, id \in Ids : Endpoint(p, "delete", u, id, 0, 0, 0, TRUE)

\* POST /accounts/{account_id}/deposit
deposit_to_account(p) ==
    \E u \in Users, id \in Ids, a \in Amounts :
        Endpoint(p, "deposit", u, id, 0, a, 0, a > 0)

\* POST /accounts/{account_id}/withdraw
withdraw_from_account(p) ==
    \E u \in Users, id \in Ids, a \in Amounts :
        Endpoint(p, "withdraw", u, id, 0, a, 0, a > 0)

\* POST /accounts/{from_account_id}/transfer/{to_account_id}
transfer_between_accounts(p) ==
    \E u \in Users, from \in Ids, to \in Ids, a \in Amounts :
        Endpoint(p, "transfer", u, from, to, a, 0, a > 0)

\* (mutant) the user id of the body is kept
owner_of_new_account_body(body_user_id, current_user_id) == body_user_id

\* `account_data.user_id = current_user_id`: the user id the service is
\* called with.
owner_of_new_account(body_user_id, current_user_id) == current_user_id

\* POST /accounts by caller u with a body carrying body_user_id: the user id
\* of the body is replaced, then service.create_account(account_data).
create_account_endpoint(p) ==
    /\ req[p].pc = "idle"
    /\ calls < MaxRequests
    /\ calls' = calls + 1
    /\ nextId + PendingInserts <= MaxId
    /\ \E u \in Users, body_user_id \in Users, b \in BalanceInputs :
         LET sent == [caller |-> u, body_user_id |-> body_user_id]
             user_id == owner_of_new_account(body_user_id, u)
         IN  req' = [req EXCEPT ![p] =
               IF ValidBalance(b)
               THEN [Started("create", "c_check", 0, 0, 0, user_id, b)
                        EXCEPT !.caller = sent.caller,
                               !.body_user_id = sent.body_user_id]
               ELSE [Finished(Started("create", "idle", 0, 0, 0,
                                      body_user_id, b), "ValidationError")
                        EXCEPT !.caller = sent.caller,
                               !.body_user_id = sent.body_user_id]]
    /\ UNCHANGED <<rows, nextId, tx, applied, authVars>>

\* existing_account = await service.get_account_by_id(account_id), then the
\* owner check, then the call of the service method.
controller_get(p) ==
    LET r  == req[p]
        id == r.account_id
    IN  /\ r.pc = "ctl_get"
        /\ req' = [req EXCEPT ![p] =
                     IF ~Visible(p, id)
                     THEN Raised(r, "NotFound", id)
                     ELSE IF ~Owns(Rec(id, RowOf(p, id)), r.user_id)
                     THEN Finished(r, "Forbidden")
                     ELSE ServiceEntry(r, Rec(id, RowOf(p, id)))]
        /\ UNCHANGED <<rows, nextId, tx, applied, calls, authVars>>

\* The HTTP interface, one request at a time.
ApiNext ==
    \E p \in Sessions :
        \/ Quiet /\ get_account_by_id_endpoint(p)
        \/ Quiet /\ update_account_endpoint(p)
        \/ Quiet /\ delete_account_endpoint(p)
        \/ Quiet /\ deposit_to_account(p)
        \/ Quiet /\ withdraw_from_account(p)
        \/ Quiet /\ transfer_between_accounts(p)
        \/ Quiet /\ create_account_endpoint(p)
        \/ controller_get(p)
        \/ Body(p)

ApiSpec == Init /\ [][ApiNext]_vars

\* ============================================================ token cache
\* Python dict operations on a map kept as a function.
Get(f, k, none) == IF k \in DOMAIN f THEN f[k] ELSE none

Put(f, k, v) == [x \in DOMAIN f \cup {k} |-> IF x = k THEN v ELSE f[x]]

Del(f, k) == [x \in DOMAIN f \ {k} |-> f[x]]

\* Truth value of a token (`not token`: None and "" are false) and of a
\* user id (`not user_id`: None and 0 are false).
TruthyToken(t) == t # NoToken /\ t # <<>>

TruthyUser(u) == u # NoUser /\ u # 0

\* `token.startswith("Bearer ")` and `token[7:]`
StartsWithBearer(t) == Len(t) > 0 /\ t[1] = Bearer

\* (mutant) the prefix is left on the token
StripBearer_keep(t) == t

StripBearer(t) == IF StartsWithBearer(t) THEN Tail(t) ELSE t

\* (mutant) the previous token of the user stays in the map
Evict_none(st, user_id) == st.tokens

\* old_token = self.user_tokens.get(user_id)
\* if old_token and old_token in self.tokens: del self.tokens[old_token]
Evict(st, user_id) ==
    LET old_token == Get(st.user_tokens, user_id, NoToken)
    IN  IF TruthyToken(old_token) /\ old_token \in DOMAIN st.tokens
        THEN Del(st.tokens, old_token)
        ELSE st.tokens

\* The token that store_token deletes from the map (None: it deletes none).
Evicted(st, token_data) ==
    LET old_token == Get(st.user_tokens, token_data.user_id, NoToken)
    IN  IF /\ TruthyToken(token_data.token) /\ TruthyUser(token_data.user_id)
           /\ TruthyToken(old_token) /\ old_token \in DOMAIN st.tokens
        THEN old_token
        ELSE NoToken

\* (mutant) the reverse index is not updated
Reindex_skip(st, user_id, token) == st.user_tokens

\* self.user_tokens[user_id] = token
Reindex(st, user_id, token) == Put(st.user_tokens, user_id, token)

\* (mutant) the previous token is deleted after the new entry is written
store_token_evict_last(st, token_data, now) ==
    LET token   == token_data.token
        user_id == token_data.user_id
        entry   == [user_id |-> user_id, username |-> token_data.username,
                    received_at |-> now]
        put     == [st EXCEPT !.tokens = Put(st.tokens, token, entry)]
    IN  IF ~TruthyToken(token) \/ ~TruthyUser(user_id)
        THEN st
        ELSE [tokens      |-> Evict(put, user_id),
              user_tokens |-> Reindex(st, user_id, token)]

\* TokenStorage.store_token on the storage st at time now.  (token_type,
\* expires_in and issued_at are copied from the event as they come and are
\* left out.)
store_token(st, token_data, now) ==
    LET token   == token_data.token
        user_id == token_data.user_id
        entry   == [user_id |-> user_id, username |-> token_data.username,
                    received_at |-> now]
    IN  IF ~TruthyToken(token) \/ ~TruthyUser(user_id)
        THEN st
        ELSE [tokens      |-> Put(Evict(st, user_id), token, entry),
              user_tokens |-> Reindex(st, user_id, token)]

\* TokenStorage.get_token_info
get_token_info(st, token) == Get(st.tokens, StripBearer(token), NoEntry)

\* TokenStorage.get_user_token
get_user_token(st, user_id) == Get(st.user_tokens, user_id, NoToken)

\* (mutant) the reverse index keeps the user's entry
remove_token_keep_index(st, token) ==
    IF token \in DOMAIN st.tokens
    THEN [tokens |-> Del(st.tokens, token), user_tokens |-> st.user_tokens]
    ELSE st

\* TokenStorage.remove_token
remove_token(st, token) ==
    IF token \in DOMAIN st.tokens
    THEN LET user_id == st.tokens[token].user_id
         IN  [tokens      |-> Del(st.tokens, token),
              user_tokens |->
                  IF TruthyUser(user_id)
                        /\ Get(st.user_tokens, user_id, NoToken) = token
                  THEN Del(st.user_tokens, user_id)
                  ELSE st.user_tokens]
    ELSE st

\* token_storage.store_token(token_data) is called.
store_token_call(token_data) ==
    /\ clock < MaxCacheOps
    /\ token_storage' = store_token(token_storage, token_data, clock)
    /\ clock' = clock + 1
    /\ storage_call' = [op |-> "store_token", token |-> token_data.token,
                        user_id |-> token_data.user_id,
                        username |-> token_data.username,
                        old_token |-> Evicted(token_storage, token_data)]
    /\ UNCHANGED <<ledgerVars, delivery, auth, token_validator, connVars>>

\* token_storage.remove_token(token) is called; user_id: the user its log
\* line names when the token was cached.
remove_token_call(token) ==
    /\ clock < MaxCacheOps
    /\ token_storage' = remove_token(token_storage, token)
    /\ clock' = clock + 1
    /\ storage_call' = [NoStorageCall EXCEPT
                           !.op = "remove_token", !.token = token,
                           !.user_id = Get(token_storage.tokens, token,
                                           NoEntry).user_id]
    /\ UNCHANGED <<ledgerVars, delivery, auth, token_validator, connVars>>

\* The ledger when no request has been made: an empty accounts table.
LedgerIdle ==
    /\ rows = NoTx
    /\ nextId = 1
    /\ calls = 0
    /\ tx = [p \in Sessions |-> NoTx]
    /\ req = [p \in Sessions |-> Idle]
    /\ applied = [p \in Sessions |-> NoApplied]

\* The TokenStorage object under any sequence of calls of its two writers.
CacheInit == LedgerIdle /\ AuthIdle /\ ConsumerIdle

CacheNext ==
    \/ \E token_data \in TokenData : store_token_call(token_data)
    \/ \E token \in TokenStrings : remove_token_call(token)

CacheSpec == CacheInit /\ [][CacheNext]_vars


\* ======================================================= message consumer
\* A delivered message: a body json.loads rejects ("garbage"), a JSON value
\* that is not an object ("scalar"), or a JSON object with some of the
\* fields token, user_id, username.
NoData == [token |-> NoToken, user_id |-> NoUser, username |-> NoName]

Messages ==
    {[kind |-> k, data |-> NoData] : k \in {"garbage", "scalar"}}
        \cup {[kind |-> "object", data |-> d] : d \in TokenData}

\* Events as the user service publishes them: every field present and set.
WellFormedMessages ==
    {m \in Messages : /\ m.kind = "object"
                      /\ TruthyToken(m.data.token)
                      /\ TruthyUser(m.data.user_id)
                      /\ m.data.username # NoName}

\* `field in token_data`
Has(token_data, field) == token_data[field] # NoData[field]

required_fields == <<"token", "user_id", "username">>

\* The `for field in required_fields` loop from its i-th round on, n calls
\* of store_token made so far: a missing field returns; otherwise the round
\* calls store_token and then formats token_data['username'] into the log
\* line, which raises KeyError when the event has no username.
RECURSIVE check_fields(_, _, _, _, _)
check_fields(st, token_data, now, i, n) ==
    IF i > Len(required_fields)
    THEN [storage |-> st, stores |-> n, raised |-> "none"]
    ELSE IF ~Has(token_data, required_fields[i])
    THEN [storage |-> st, stores |-> n, raised |-> "none"]
    ELSE LET stored == store_token(st, token_data, now)
         IN  IF ~Has(token_data, "username")
             THEN [storage |-> stored, stores |-> n + 1, raised |-> "KeyError"]
             ELSE check_fields(stored, token_data, now, i + 1, n + 1)

\* The try block of process_token_message.
handle(st, message, now) ==
    IF message.kind = "garbage"
    THEN [storage |-> st, stores |-> 0, raised |-> "JSONDecodeError"]
    ELSE IF message.kind = "scalar"
    THEN [storage |-> st, stores |-> 0, raised |-> "AttributeError"]
    ELSE check_fields(st, message.data, now, 1, 0)

\* `except json.JSONDecodeError` and `except Exception` log what the try
\* block raised; anything else leaves the handler.
Escapes(raised) ==
    raised \notin {"none", "JSONDecodeError", "AttributeError", "KeyError"}

\* `async with message.process()`: the message is acknowledged when the
\* block ends normally and rejected without requeue when an exception
\* leaves it.
process(escaped) == IF escaped THEN "reject" ELSE "ack"

\* Where the broker puts a settled message: account_auth_queue is declared
\* with x-dead-letter-routing-key account_auth_queue.dlq, so a message
\* rejected without requeue moves there; an acknowledged one is deleted.
\* Neither returns to account_auth_queue.
DeadLetterQueue == "account_auth_queue.dlq"

dead_letter(settled) == IF settled = "reject" THEN DeadLetterQueue ELSE "none"

\* The broker delivers a message: process_token_message runs to its end
\* (it awaits nothing between its statements).
process_token_message(message) ==
    LET done == handle(token_storage, message, clock)
    IN  /\ clock < MaxDeliveries
        /\ consumer.state = "CONSUMING"
        /\ token_storage' = done.storage
        /\ clock' = clock + 1
        /\ delivery' = [kind |-> message.kind, token |-> message.data.token,
                        user_id |-> message.data.user_id,
                        username |-> message.data.username,
                        stores |-> done.stores, raised |-> done.raised,
                        escaped |-> Escapes(done.raised),
                        settled |-> process(Escapes(done.raised)),
                        queue |-> dead_letter(process(Escapes(done.raised)))]
        /\ UNCHANGED <<ledgerVars, storage_call, auth, token_validator,
                       connVars>>

ConsumerInit == LedgerIdle /\ AuthIdle /\ Subscribed

ConsumerNext == \E message \in Messages : process_token_message(message)

ConsumerSpec == ConsumerInit /\ [][ConsumerNext]_vars

\* ==================================================== consumer connection
\* What an attempt (connect_robust and the declarations that follow it) can
\* raise: a ConnectionError (the broker refuses or drops the connection), or
\* an exception of another class (a timeout, a channel-level error of a
\* declaration, a malformed RABBITMQ_URL).
Failures == {"ConnectionError", "Exception"}

\* start_rabbitmq_consumer(): the task is created and enters its loop.
start_rabbitmq_consumer ==
    /\ consumer.state = "DISCONNECTED"
    /\ consumer' = [consumer EXCEPT !.state = "CONNECTING", !.attempt = 0]
    /\ UNCHANGED <<ledgerVars, token_storage, clock, storage_call, delivery,
                   auth, token_validator, broker>>

\* The attempt succeeds: connection, channel, exchange, both queues, the
\* binding, and `await queue.consume(process_token_message)`; the task then
\* waits in `await asyncio.Future()`.
connect ==
    /\ consumer.state = "CONNECTING"
    /\ broker.reachable
    /\ consumer' = [consumer EXCEPT !.state = "CONSUMING",
                                    !.attempts = @ + 1, !.consumed = TRUE]
    /\ UNCHANGED <<ledgerVars, token_storage, clock, storage_call, delivery,
                   auth, token_validator, broker>>

\* The two handlers of the loop body.  `except ConnectionError`: sleep when
\* attempt < max_retries - 1, otherwise re-raise.  `except Exception`: sleep.
handler(c, failure) ==
    IF failure = "ConnectionError" /\ ~(c.attempt < max_retries - 1)
    THEN [c EXCEPT !.state = "FAILED"]
    ELSE [c EXCEPT !.state = "BACKOFF"]

\* The attempt raises.
connect_fails(failure) ==
    /\ consumer.state = "CONNECTING"
    /\ failure = "ConnectionError" => ~broker.reachable
    /\ consumer' = handler([consumer EXCEPT !.attempts = @ + 1], failure)
    /\ UNCHANGED <<ledgerVars, token_storage, clock, storage_call, delivery,
                   auth, token_validator, broker>>

\* The sleep is over: `for attempt in range(max_retries)` takes its next
\* value, or is exhausted and the function returns.
next_attempt ==
    /\ consumer.state = "BACKOFF"
    /\ consumer' = IF consumer.attempt + 1 < max_retries
                   THEN [consumer EXCEPT !.state = "CONNECTING",
                                         !.attempt = @ + 1]
                   ELSE [consumer EXCEPT !.state = "RETURNED"]
    /\ UNCHANGED <<ledgerVars, token_storage, clock, storage_call, delivery,
                   auth, token_validator, broker>>

\* (mutant) a lost connection raises into the task
connection_lost_raise(c) ==
    IF c.state = "CONSUMING" THEN [c EXCEPT !.state = "FAILED"] ELSE c

\* The connection of a subscribed consumer is lost.  It was made by
\* connect_robust: the connection object starts reconnecting by itself, and
\* nothing is raised into the task, which keeps waiting in
\* `await asyncio.Future()`.
connection_lost(c) ==
    IF c.state = "CONSUMING" THEN [c EXCEPT !.state = "RECONNECTING"] ELSE c

\* The broker becomes unreachable.
broker_down ==
    /\ broker.reachable
    /\ broker.outages < MaxOutages
    /\ broker' = [reachable |-> FALSE, outages |-> broker.outages + 1]
    /\ consumer' = connection_lost(consumer)
    /\ UNCHANGED <<ledgerVars, token_storage, clock, storage_call, delivery,
                   auth, token_validator>>

\* The broker becomes reachable again.
broker_up ==
    /\ ~broker.reachable
    /\ broker' = [broker EXCEPT !.reachable = TRUE]
    /\ UNCHANGED <<ledgerVars, token_storage, clock, storage_call, delivery,
                   auth, token_validator, consumer>>

\* The robust connection re-establishes itself, its channel, the queues and
\* the subscription of process_token_message.
reconnect ==
    /\ consumer.state = "RECONNECTING"
    /\ broker.reachable
    /\ consumer' = [consumer EXCEPT !.state = "CONSUMING",
                                    !.reconnects = @ + 1]
    /\ UNCHANGED <<ledgerVars, token_storage, clock, storage_call, delivery,
                   auth, token_validator, broker>>

\* The task is cancelled.  In `await asyncio.Future()` the CancelledError is
\* caught and the loop left (`break`): the function returns.  At any other
\* await it leaves the function.
cancel_consumer ==
    /\ consumer.state \in {"CONNECTING", "BACKOFF", "CONSUMING", "RECONNECTING"}
    /\ consumer' = [consumer EXCEPT
                      !.state = IF @ \in {"CONSUMING", "RECONNECTING"}
                                THEN "RETURNED" ELSE "CANCELLED",
                      !.cancelled = TRUE]
    /\ UNCHANGED <<ledgerVars, token_storage, clock, storage_call, delivery,
                   auth, token_validator, broker>>

\* The account service process from its start: the broker reachable or not.
ConnectionInit ==
    /\ LedgerIdle /\ AuthIdle
    /\ consumer = NotStarted
    /\ broker \in {BrokerUp, [BrokerUp EXCEPT !.reachable = FALSE]}

ConnectionNext ==
    \/ start_rabbitmq_consumer
    \/ connect
    \/ \E failure \in Failures : connect_fails(failure)
    \/ next_attempt
    \/ broker_down
    \/ broker_up
    \/ reconnect
    \/ cancel_consumer
    \/ \E message \in WellFormedMessages : process_token_message(message)

ConnectionSpec == ConnectionInit /\ [][ConnectionNext]_vars

\* The robust connection keeps retrying while it is disconnected, and the
\* broker that went down comes back.
ConnectionLiveSpec ==
    ConnectionSpec /\ WF_vars(reconnect) /\ WF_vars(broker_up)

\* ======================================================== token validator
\* The tokens presented as credentials.  What jwt.decode finds in a token:
\* whether its signature matches secret_key, whether it carries `sub`, and
\* its `exp` ("past", "far", or "soon": not yet passed when jwt.decode reads
\* the clock, possibly passed when validate_token reads it again).
NoPayload == [signed |-> FALSE, sub |-> NoName, user_id |-> NoUser,
              exp |-> "none"]

JwtTable ==
    [a       |-> [signed |-> TRUE, sub |-> "ana", user_id |-> 1, exp |-> "far"],
     b       |-> [signed |-> TRUE, sub |-> "bob", user_id |-> 2, exp |-> "none"],
     nosub   |-> [signed |-> TRUE, sub |-> NoName, user_id |-> 1, exp |-> "far"],
     expired |-> [signed |-> TRUE, sub |-> "ana", user_id |-> 1, exp |-> "past"],
     soon    |-> [signed |-> TRUE, sub |-> "ana", user_id |-> 1, exp |-> "soon"],
     badsig  |-> [signed |-> FALSE, sub |-> "ana", user_id |-> 1, exp |-> "far"]]

Credentials ==
    TokenStrings \cup {<<"nosub">>, <<"expired">>, <<"soon">>, <<"badsig">>,
                       <<"junk">>, <<Bearer, "b">>, <<Bearer, Bearer, "a">>}

\* Whether the string is a JWT at all, and its content.
IsJwt(token) == Len(token) = 1 /\ token[1] \in DOMAIN JwtTable

Payload(token) == IF IsJwt(token) THEN JwtTable[token[1]] ELSE NoPayload

\* jwt.decode(token, self.secret_key, algorithms=[self.algorithm]): the
\* error it raises ("none": it returns the payload).
jwt_decode(token) ==
    IF ~IsJwt(token) THEN "DecodeError"
    ELSE IF ~Payload(token).signed THEN "InvalidSignatureError"
    ELSE IF Payload(token).exp = "past" THEN "ExpiredSignatureError"
    ELSE "none"

\* An HTTPException raised inside the try block of validate_token is not a
\* jwt error: the last handler, `except Exception`, catches it and raises
\* HTTPException(500) in its place.
RaisedInTry(status) == 500

\* TokenValidator.validate_token: the status of the HTTPException it raises
\* (200: it returns the claims).  late: the clock has passed a "soon" expiry
\* when `datetime.now(UTC).timestamp() > exp` is evaluated.
validate_token(token, late) ==
    LET bare    == StripBearer(token)
        error   == jwt_decode(bare)
        payload == Payload(bare)
    IN  IF error = "ExpiredSignatureError" THEN 401
        ELSE IF error # "none" THEN 401
        ELSE IF payload.exp = "soon" /\ late THEN RaisedInTry(401)
        ELSE IF payload.sub = NoName THEN RaisedInTry(401)
        ELSE 200

\* initialize_token_validator(secret_key)
initialize_token_validator ==
    /\ token_validator' = TRUE
    /\ UNCHANGED <<ledgerVars, token_storage, clock, storage_call, delivery,
                   auth, connVars>>

\* (mutant) the module-level validator is returned unchecked
get_token_validator_unchecked(validator) == "TokenValidator"

\* get_token_validator(): the module-level validator, or RuntimeError
\* ("TokenValidator not initialized") while it is None.
get_token_validator(validator) ==
    IF ~validator THEN "RuntimeError" ELSE "TokenValidator"

\* ================================================= authorization middleware
\* get_current_user(credentials): cache lookup, else get_token_validator()
\* and validate_token.  validator_calls counts the entries into the fallback
\* path; validated is the status validate_token ended with (0: not called);
\* validator is what get_token_validator() gave.  The RuntimeError of
\* get_token_validator is caught by `except Exception` and answered with 401.
get_current_user(token, late) ==
    LET token_info == get_token_info(token_storage, token)
        bare       == StripBearer(token)
        validated  == validate_token(token, late)
        validator  == get_token_validator(token_validator)
    IN  /\ auth' =
              IF token_info # NoEntry
              THEN [token |-> token, source |-> "rabbitmq_storage",
                    user_id |-> token_info.user_id,
                    username |-> token_info.username, status |-> 200,
                    validator_calls |-> 0, validated |-> 0,
                    validator |-> "none"]
              ELSE IF validator = "RuntimeError"
              THEN [token |-> token, source |-> "none", user_id |-> NoUser,
                    username |-> NoName, status |-> 401,
                    validator_calls |-> 1, validated |-> 0,
                    validator |-> validator]
              ELSE IF validated # 200
              THEN [token |-> token, source |-> "none", user_id |-> NoUser,
                    username |-> NoName, status |-> validated,
                    validator_calls |-> 1, validated |-> validated,
                    validator |-> validator]
              ELSE [token |-> token, source |-> "jwt_validation",
                    user_id |-> Payload(bare).user_id,
                    username |-> Payload(bare).sub, status |-> 200,
                    validator_calls |-> 1, validated |-> 200,
                    validator |-> validator]
        /\ UNCHANGED <<ledgerVars, token_storage, clock, storage_call,
                       delivery, token_validator, connVars>>

\* The running service: published token events arrive, the validator is
\* initialized, requests present their credentials.
AuthInit == LedgerIdle /\ AuthIdle /\ Subscribed

AuthNext ==
    \/ \E message \in WellFormedMessages : process_token_message(message)
    \/ initialize_token_validator
    \/ \E token \in Credentials, late \in BOOLEAN :
           get_current_user(token, late)

AuthSpec == AuthInit /\ [][AuthNext]_vars

\* ======================================================== properties
Monetary == {"deposit", "withdraw", "transfer"}

IsDone(p, op) == req[p].op = op /\ req[p].pc = "done"

\* Net change a request has committed to the balances of the accounts in S.
RECURSIVE NetDelta(_, _)
NetDelta(p, S) ==
    IF S = {} THEN 0
    ELSE LET i == CHOOSE j \in S : TRUE
         IN  applied[p].delta[i] + NetDelta(p, S \ {i})

\* Positions at which a request is about to read an account row.
ReadPcs == {"u_get", "u_reget", "d_get", "w_get", "t_get_from", "t_get_to"}

\* C1: every transfer (here: of a whole number of cents) that has ended,
\* successfully or with an error, has left from.balance + to.balance as it
\* found it: what it committed to the two accounts adds up to zero (with
\* from = to: the account is unchanged).
C1_TransferConserves ==
    \A p \in Sessions :
        (IsDone(p, "transfer") /\ TwoPlaces(req[p].amount)) =>
            NetDelta(p, {req[p].account_id, req[p].to_account_id}) = 0

\* C2: the debit and the credit of a transfer (here: of a whole number of
\* cents) become visible together: no committed state in which another
\* request is about to read holds the debit of a transfer without its credit.
C2_DebitCreditTogether ==
    \A p \in Sessions :
        (req[p].op = "transfer" /\ req[p].account_id # req[p].to_account_id
            /\ TwoPlaces(req[p].amount)
            /\ \E q \in Sessions \ {p} : req[q].pc \in ReadPcs)
        => applied[p].delta[req[p].account_id]
             = - applied[p].delta[req[p].to_account_id]

\* C3: a deposit, withdraw or transfer that ended with an error of the
\* service (the store itself did not fail) has committed nothing: no partial
\* debit or credit stays in the store.
C3_NoPartialMutation ==
    \A p \in Sessions :
        (req[p].op \in Monetary /\ req[p].pc = "done"
            /\ req[p].outcome \notin {"ok", "StoreError"})
        => applied[p] = NoApplied

\* C4: with requests executed one at a time, every committed account has
\* balance >= 0.
C4_NonNegative == \A i \in DOMAIN rows : rows[i].balance >= 0

C4_Witness ==
    \E p \in Sessions :
        /\ IsDone(p, "withdraw") /\ req[p].outcome = "ok"
        /\ req[p].account_id \in DOMAIN rows
        /\ rows[req[p].account_id].balance = 0
        /\ applied[p].delta[req[p].account_id] = - req[p].amount

\* No request other than the ones in flight has run, and these are all
\* of the kinds in S.
OnlyRequests(S) ==
    /\ calls = Cardinality({q \in Sessions : req[q].op # "none"})
    /\ \A q \in Sessions : req[q].op \in S \cup {"none"}

\* C5: when only withdraw and transfer requests run, however they
\* interleave, no committed balance is negative and no successful withdrawal
\* returns a negative balance.
C5_ConcurrentNonNegative ==
    OnlyRequests({"withdraw", "transfer"}) =>
        /\ \A i \in DOMAIN rows : ~ (rows[i].balance < 0)
        /\ \A p \in Sessions :
             (IsDone(p, "withdraw") /\ req[p].outcome = "ok")
             => req[p].rec.balance >= 0

\* Rows other than id are the same before and after the step.
OthersUnchanged(id) ==
    /\ DOMAIN rows' \ {id} = DOMAIN rows \ {id}
    /\ \A j \in DOMAIN rows \ {id} : rows'[j] = rows[j]

\* What a step of deposit(account_id, amount) of session p does to the
\* store: a commit leaves exactly old balance + amount in the row and in the
\* returned account and changes no other row; NotFound is raised only for an
\* account that does not exist.
DepositContract(p) ==
    LET id == req[p].account_id
        a  == req[p].amount
    IN  /\ (req[p].op = "deposit" /\ req[p].pc = "dep_commit"
               /\ req'[p].outcome = "ok")
           => /\ a > 0 /\ id \in DOMAIN rows /\ id \in DOMAIN rows'
              /\ rows'[id].balance = rows[id].balance + a
              /\ rows'[id].user_id = rows[id].user_id
              /\ rows'[id].created_at = rows[id].created_at
              /\ req'[p].rec = Rec(id, rows'[id])
              /\ OthersUnchanged(id)
        /\ (req[p].op = "deposit" /\ req[p].pc = "dep_upd"
               /\ req'[p].outcome = "NotFound")
           => id \notin DOMAIN rows
        /\ (req[p].op = "deposit" /\ req[p].pc = "dep_upd"
               /\ req'[p].pc = "dep_commit")
           => id \in DOMAIN rows

\* C6 (as claimed): every deposit with amount > 0 on an existing account
\* commits exactly old balance + amount, returns the account with that
\* balance, and changes no other row.
C6_DepositExact == [][\A p \in Sessions : DepositContract(p)]_vars

\* C6 (amended): the same for every amount > 0 of at most two decimal places.
C6_DepositExactTwoPlaces ==
    [][\A p \in Sessions : TwoPlaces(req[p].amount) => DepositContract(p)]_vars

C6_Witness ==
    \E p \in Sessions :
        /\ IsDone(p, "deposit") /\ req[p].outcome = "ok"
        /\ req[p].amount = Cent /\ req[p].rec.balance = 2 * Cent
        /\ rows[req[p].account_id].balance = 2 * Cent

\* The balance account id had before request p committed anything to it.
Before(p, id) == rows[id].balance - applied[p].delta[id]

\* The outcome of a finished withdraw(account_id, amount) of session p on
\* an existing account: with amount <= balance it has committed balance -
\* amount and returns that row; with amount > balance it has raised
\* InsufficientBalance and committed nothing.  Only a failure of the store
\* itself ends it otherwise.
WithdrawContract(p) ==
    LET id == req[p].account_id
        a  == req[p].amount
    IN  (IsDone(p, "withdraw") /\ a > 0 /\ id \in DOMAIN rows) =>
          /\ req[p].outcome \in {"ok", "InsufficientBalance", "StoreError"}
          /\ req[p].outcome = "ok" =>
               /\ a <= Before(p, id)
               /\ rows[id].balance = Before(p, id) - a
               /\ applied[p] = [NoApplied EXCEPT !.delta[id] = -a]
               /\ req[p].rec = Rec(id, rows[id])
          /\ req[p].outcome = "InsufficientBalance" =>
               /\ a > Before(p, id)
               /\ req[p].exc_account = id
               /\ applied[p] = NoApplied
          /\ req[p].outcome = "StoreError" => applied[p] = NoApplied

\* C7 (as claimed): (requests one at a time) every withdraw with amount > 0
\* and amount <= balance leaves balance - amount; otherwise it fails with
\* InsufficientBalance and every balance is unchanged.
C7_Withdraw == \A p \in Sessions : WithdrawContract(p)

\* C7 (amended): the same for every amount > 0 of at most two decimal places.
C7_WithdrawTwoPlaces ==
    \A p \in Sessions : TwoPlaces(req[p].amount) => WithdrawContract(p)

\* withdrawing the exact balance leaves 0
C7_Witness ==
    \E p \in Sessions :
        /\ IsDone(p, "withdraw") /\ req[p].outcome = "ok"
        /\ req[p].amount = Cent /\ req[p].rec.balance = 0
        /\ rows[req[p].account_id].balance = 0

\* C8: (requests one at a time) a transfer with amount > 0 between two
\* existing accounts fails with InsufficientBalance, naming the source and
\* committing nothing, exactly when the source balance is below the amount;
\* otherwise it succeeds and returns the two updated accounts.  Only a failure
\* of the store itself ends it otherwise.
C8_TransferInsufficient ==
    \A p \in Sessions :
        LET from == req[p].account_id
            to   == req[p].to_account_id
            a    == req[p].amount
        IN  (IsDone(p, "transfer") /\ a > 0 /\ from \in DOMAIN rows
                /\ to \in DOMAIN rows /\ req[p].outcome # "StoreError") =>
              /\ req[p].outcome = "InsufficientBalance" <=> a > Before(p, from)
              /\ req[p].outcome = "InsufficientBalance" =>
                   /\ req[p].exc_account = from
                   /\ applied[p] = NoApplied
              /\ req[p].outcome # "InsufficientBalance" =>
                   /\ req[p].outcome = "ok"
                   /\ req[p].from_rec.id = from
                   /\ req[p].rec = Rec(to, rows[to])
                   /\ from # to => req[p].from_rec = Rec(from, rows[from])

C8_Witness ==
    \E p \in Sessions :
        /\ IsDone(p, "transfer") /\ req[p].outcome = "InsufficientBalance"
        /\ req[p].account_id # req[p].to_account_id
        /\ req[p].to_account_id \in DOMAIN rows
        /\ rows[req[p].account_id].balance < req[p].amount

\* C9: deposit, withdraw and transfer called with amount <= 0 end with
\* InvalidAmount whatever the accounts are, having executed no statement and
\* committed nothing.
C9_InvalidAmount ==
    \A p \in Sessions :
        (req[p].op \in Monetary /\ req[p].amount <= 0) =>
            /\ req[p].pc = "done"
            /\ req[p].outcome = "InvalidAmount"
            /\ tx[p] = NoTx
            /\ applied[p] = NoApplied

C9_Witness ==
    \E p \in Sessions :
        /\ IsDone(p, "transfer") /\ req[p].outcome = "InvalidAmount"
        /\ req[p].amount = 0
        /\ req[p].account_id \notin DOMAIN rows

\* C10: create_account for a user_id that already owns a committed account
\* raises Duplicate at its existence check; a call that ended with Duplicate
\* has inserted nothing and changed no account.
C10_Duplicate ==
    /\ [][\A p \in Sessions :
            (req[p].pc = "c_check" /\ req'[p].pc # "c_check"
                /\ \E i \in DOMAIN rows : rows[i].user_id = req[p].user_id)
            => /\ req'[p].pc = "done"
               /\ req'[p].outcome \in {"Duplicate", "StoreError"}
               /\ rows' = rows /\ nextId' = nextId
       ]_vars
    /\ [](\A p \in Sessions :
            (IsDone(p, "create") /\ req[p].outcome = "Duplicate")
            => applied[p] = NoApplied /\ tx[p] = NoTx)

C10_Witness ==
    \E p \in Sessions :
        /\ IsDone(p, "create") /\ req[p].outcome = "Duplicate"
        /\ \E i \in DOMAIN rows : rows[i].user_id = req[p].user_id

\* C11: in every reachable state of the store there is at most one committed
\* account row per user_id, also when create_account requests for the same
\* user_id run concurrently on separate sessions.
C11_OneAccountPerUser ==
    \A i, j \in DOMAIN rows : i # j => rows[i].user_id # rows[j].user_id

\* Token entries of the map st.tokens that carry user_id u.
EntriesOf(st, u) == {t \in DOMAIN st.tokens : st.tokens[t].user_id = u}

\* C12: after any sequence of store_token and remove_token calls, with any
\* tokens and user ids (the same token string stored for different users
\* included), at most one entry of the token map carries any given user_id.
C12_OneTokenPerUser ==
    \A u \in 0..MaxUser : Cardinality(EntriesOf(token_storage, u)) <= 1

\* a store has just replaced the previous token of a user while another
\* user's token stays cached
C12_Witness ==
    /\ storage_call.op = "store_token"
    /\ TruthyToken(storage_call.old_token)
    /\ storage_call.old_token # storage_call.token
    /\ Cardinality(DOMAIN token_storage.tokens) = 2

\* A call of store_token with an event it accepts has just been made.
StoreStep ==
    /\ clock' = clock + 1
    /\ storage_call'.op = "store_token"
    /\ TruthyToken(storage_call'.token)
    /\ TruthyUser(storage_call'.user_id)

\* What the store of a new token t2 does for the user who holds token t1 in
\* the map: afterwards the lookup of t1 finds nothing and the lookup of t2
\* returns the identity of that user.
StoreReplaces(t1, t2) ==
    (/\ StoreStep
     /\ storage_call'.token = t2
     /\ t1 # t2
     /\ t1 \in DOMAIN token_storage.tokens
     /\ token_storage.tokens[t1].user_id = storage_call'.user_id)
    => /\ get_token_info(token_storage', t1) = NoEntry
       /\ get_token_info(token_storage', t2).user_id = storage_call'.user_id
       /\ get_token_info(token_storage', t2).username = storage_call'.username

\* C13 (as claimed): after the store of a new token t2 for a user_id that
\* holds token t1 (t1 # t2), the lookup of t1 returns "not present" and the
\* lookup of t2 returns that user's identity.
C13_StoreEvictsPrevious ==
    [][\A t1, t2 \in TokenStrings : StoreReplaces(t1, t2)]_vars

\* C13 (amended): the same for token strings t1, t2 that do not begin with
\* the "Bearer " prefix, which the lookup cuts off and the store keeps.
C13_StoreEvictsPreviousPlain ==
    [][\A t1, t2 \in TokenStrings :
          (~StartsWithBearer(t1) /\ ~StartsWithBearer(t2))
          => StoreReplaces(t1, t2)]_vars

\* token "b" has just replaced token "a" of the same user
C13_Witness ==
    /\ storage_call.op = "store_token"
    /\ storage_call.old_token = <<"a">>
    /\ storage_call.token = <<"b">>
    /\ get_token_info(token_storage, <<"a">>) = NoEntry
    /\ get_token_info(token_storage, <<"b">>).user_id = storage_call.user_id

\* The token-to-identity and user-to-token mappings of a storage, without
\* the received_at stamps.
Mappings(st) ==
    [tokens      |-> [t \in DOMAIN st.tokens |->
                         [user_id  |-> st.tokens[t].user_id,
                          username |-> st.tokens[t].username]],
     user_tokens |-> st.user_tokens]

\* The event just stored is the one stored by the call before.
Redelivered ==
    /\ StoreStep
    /\ storage_call.op = "store_token"
    /\ storage_call'.token = storage_call.token
    /\ storage_call'.user_id = storage_call.user_id
    /\ storage_call'.username = storage_call.username

\* In storage st the token of the call c resolves to the identity of c.
Resolves(st, c) ==
    /\ get_token_info(st, c.token).user_id = c.user_id
    /\ get_token_info(st, c.token).username = c.username

\* C16: storing the identical token event a second time leaves the token map
\* and the reverse index with the token-to-identity and user-to-token
\* mappings the first store left (received_at aside), and the token that
\* resolved after the first store still resolves after the second.
C16_StoreIdempotent ==
    [][Redelivered =>
          /\ Mappings(token_storage') = Mappings(token_storage)
          /\ Resolves(token_storage, storage_call)
                => Resolves(token_storage', storage_call')]_vars

\* the second store of one event has replaced the entry by itself, with a
\* later received_at
C16_Witness ==
    /\ storage_call.op = "store_token"
    /\ storage_call.old_token = storage_call.token
    /\ storage_call.token = <<"a">>
    /\ get_token_info(token_storage, <<"a">>).user_id = storage_call.user_id
    /\ get_token_info(token_storage, <<"a">>).received_at = clock - 1
    /\ clock >= 2

\* A message has just been handled.
DeliveryStep == clock' = clock + 1 /\ delivery'.kind # "none"

\* C14: a delivered message whose body does not parse, or that lacks one of
\* the fields token, user_id, username, leaves both maps of the token cache
\* unchanged, and no exception escapes the handler.
C14_MalformedDropped ==
    [][(/\ DeliveryStep
        /\ \/ delivery'.kind \in {"garbage", "scalar"}
           \/ delivery'.token = NoToken
           \/ delivery'.user_id = NoUser
           \/ delivery'.username = NoName)
       => /\ token_storage' = token_storage
          /\ ~delivery'.escaped]_vars

\* C15: for each delivery of a well-formed event (token, user_id and
\* username all present and set), the handler calls store_token exactly once.
C15_StoreOnce ==
    (/\ delivery.kind = "object"
     /\ TruthyToken(delivery.token)
     /\ TruthyUser(delivery.user_id)
     /\ delivery.username # NoName)
    => delivery.stores = 1

\* get_current_user has just been called with the credential auth'.token.
AuthStep == auth' # auth /\ auth'.token # NoToken

\* C17: given a bearer credential, the middleware consults the token cache
\* first and on a hit returns the cached identity without invoking the
\* validator; on a miss it invokes the validator; whenever neither path
\* yields an identity the outcome is 401 and no other error.
C17_CacheThenValidator ==
    [][AuthStep =>
          LET cached == get_token_info(token_storage, auth'.token)
          IN  /\ cached # NoEntry =>
                   /\ auth'.validator_calls = 0
                   /\ auth'.status = 200
                   /\ auth'.source = "rabbitmq_storage"
                   /\ auth'.user_id = cached.user_id
                   /\ auth'.username = cached.username
              /\ cached = NoEntry => auth'.validator_calls = 1
              /\ auth'.status # 200 => auth'.status = 401]_vars

\* What the credential of the last call is, once its bearer prefix is cut.
InvalidSignature(token) ==
    ~IsJwt(StripBearer(token)) \/ ~Payload(StripBearer(token)).signed

NoSubject(token) ==
    ~InvalidSignature(token) /\ Payload(StripBearer(token)).sub = NoName

ExpiryPast(token) ==
    ~InvalidSignature(token) /\ Payload(StripBearer(token)).exp = "past"

\* C18: validate_token fails with 401 when the signature is invalid, when
\* the decoded token has no sub claim, and when its expiry is in the past;
\* it returns the claims only when none of the three holds.
C18_ValidateUnauthorized ==
    auth.validated # 0 =>
        /\ (InvalidSignature(auth.token) \/ NoSubject(auth.token)
                \/ ExpiryPast(auth.token)) => auth.validated = 401
        /\ auth.validated = 200 =>
              ~ (InvalidSignature(auth.token) \/ NoSubject(auth.token)
                    \/ ExpiryPast(auth.token))

\* C19: on the owner-checking endpoints (get by id, update, delete, deposit,
\* withdraw, transfer from the source account) a request of a caller whose
\* user_id differs from the owner of the target account ends at the owner
\* check in 403 Forbidden, and such a request writes and commits nothing.
\* Only a failure of the store during the lookup ends it otherwise.
C19_ForbiddenNoMutation ==
    /\ [][\A p \in Sessions :
            LET id == req[p].account_id
            IN  (/\ req[p].pc = "ctl_get" /\ req'[p].pc # "ctl_get"
                 /\ req[p].op \in OwnerScoped
                 /\ id \in DOMAIN rows
                 /\ rows[id].user_id # req[p].user_id)
                => /\ req'[p].pc = "done"
                   /\ req'[p].outcome \in {"Forbidden", "StoreError"}
                   /\ req'[p].outcome = "Forbidden"
                         => status_code(req'[p]) = 403
                   /\ rows' = rows /\ tx' = tx /\ applied' = applied
       ]_vars
    /\ [](\A p \in Sessions :
            (req[p].pc = "done" /\ req[p].outcome = "Forbidden")
            => /\ applied[p] = NoApplied /\ tx[p] = NoTx
               /\ status_code(req[p]) = 403)

\* a transfer out of another user's account has been refused
C19_Witness ==
    \E p \in Sessions :
        /\ IsDone(p, "transfer") /\ req[p].outcome = "Forbidden"
        /\ req[p].account_id \in DOMAIN rows
        /\ rows[req[p].account_id].user_id # req[p].user_id
        /\ req[p].to_account_id \in DOMAIN rows
        /\ rows[req[p].to_account_id].user_id = req[p].user_id

\* C20: when a store call inside create_account, update_account,
\* delete_account, deposit or withdraw raises, the session's rollback has
\* been invoked exactly once by the time the error reaches the caller.
C20_RollbackOnStoreError ==
    \A p \in Sessions :
        (/\ req[p].op \in {"create", "update", "delete", "deposit", "withdraw"}
         /\ req[p].pc = "done"
         /\ req[p].outcome = "StoreError")
        => req[p].rollbacks = 1

\* C21: whatever exception a step of transfer(from, to, amount) with
\* amount > 0 raises, the initial account lookups included, the session has
\* been rolled back exactly once when the exception reaches the caller.
C21_TransferRollsBack ==
    \A p \in Sessions :
        (IsDone(p, "transfer") /\ req[p].amount > 0 /\ req[p].outcome # "ok")
        => req[p].rollbacks = 1

\* The outcome of a finished transfer(id, id, amount) of session p on an
\* existing account: InsufficientBalance, nothing committed, exactly when the
\* amount exceeds the balance the account had; otherwise success, with the
\* balance the account had.  Only a failure of the store itself ends it
\* otherwise.
SameAccountContract(p) ==
    LET id == req[p].account_id
        a  == req[p].amount
    IN  (/\ IsDone(p, "transfer") /\ req[p].to_account_id = id
         /\ a > 0 /\ id \in DOMAIN rows
         /\ req[p].outcome # "StoreError")
        => /\ req[p].outcome = "InsufficientBalance" <=> a > Before(p, id)
           /\ req[p].outcome = "InsufficientBalance" => applied[p] = NoApplied
           /\ req[p].outcome # "InsufficientBalance" =>
                /\ req[p].outcome = "ok"
                /\ rows[id].balance = Before(p, id)
                /\ req[p].rec = Rec(id, rows[id])

\* C22 (as claimed): (requests one at a time) transfer with from = to is
\* permitted: it fails with InsufficientBalance when the amount exceeds the
\* pre-operation balance and otherwise succeeds, leaving the balance of the
\* account at its pre-operation value.
C22_SameAccount == \A p \in Sessions : SameAccountContract(p)

\* C22 (amended): the same for every amount of at most two decimal places.
C22_SameAccountTwoPlaces ==
    \A p \in Sessions : TwoPlaces(req[p].amount) => SameAccountContract(p)

\* a transfer of the whole balance of an account to itself has succeeded
C22_Witness ==
    \E p \in Sessions :
        /\ IsDone(p, "transfer") /\ req[p].outcome = "ok"
        /\ req[p].to_account_id = req[p].account_id
        /\ req[p].amount = Cent
        /\ rows[req[p].account_id].balance = Cent
        /\ req[p].from_rec.balance = 0

\* C23: (requests one at a time) after a deposit, withdraw or transfer was
\* cancelled at one of its suspension points, every account balance equals
\* its value before the operation started: the operation made nothing durable.
C23_CancelRollsBack ==
    \A p \in Sessions :
        (req[p].op \in Monetary /\ req[p].pc = "done"
         /\ req[p].outcome = "Cancelled")
        => applied[p] = NoApplied

\* The last delivery was of a message that does not parse or lacks one of
\* the fields token, user_id, username.
MalformedDelivery ==
    \/ delivery.kind \in {"garbage", "scalar"}
    \/ /\ delivery.kind = "object"
       /\ \/ delivery.token = NoToken
          \/ delivery.user_id = NoUser
          \/ delivery.username = NoName

\* C24: a delivered message that fails parsing or lacks a required field
\* ends up on account_auth_queue.dlq, and is not put back on the consumer's
\* queue.
C24_MalformedDeadLettered ==
    MalformedDelivery =>
        /\ delivery.queue = DeadLetterQueue
        /\ delivery.settled = "reject"

\* C25: the consumer makes at most 5 connection attempts, and when it has
\* made them all without connecting, whatever they raised, it has terminated
\* with an error: it never returns normally without having connected.
C25_BoundedRetriesFatal ==
    /\ consumer.attempts <= 5
    /\ consumer.state = "RETURNED" => consumer.consumed
    /\ (/\ consumer.attempts = 5 /\ ~consumer.consumed /\ ~consumer.cancelled
        /\ consumer.state # "BACKOFF")
       => consumer.state = "FAILED"

\* C26: once the consumer has been subscribed, a loss of the connection
\* never terminates it (only its cancellation stops it), and whenever it is
\* reconnecting it eventually consumes again, the broker having become
\* reachable.
C26_Reconnects ==
    /\ []((consumer.consumed /\ ~consumer.cancelled)
            => consumer.state \in {"CONSUMING", "RECONNECTING"})
    /\ (consumer.state = "RECONNECTING")
         ~> (consumer.state = "CONSUMING" \/ consumer.cancelled)

\* the consumer is subscribed again after every outage the broker had, and
\* has handled a message
C26_Witness ==
    /\ consumer.state = "CONSUMING"
    /\ consumer.reconnects = MaxOutages
    /\ broker.outages = MaxOutages
    /\ delivery.kind = "object"

\* C27: every endpoint answers a NotFound outcome (the target account is
\* absent) with status 404, withdraw and transfer included.
C27_NotFoundIs404 ==
    \A p \in Sessions :
        (req[p].pc = "done" /\ req[p].outcome = "NotFound")
        => status_code(req[p]) = 404

\* The two lookups of C28 for token string t.
SameLookup(t) ==
    get_token_info(token_storage, <<Bearer>> \o t)
        = get_token_info(token_storage, t)

\* C28 (as claimed): in every cache state and for every token string t,
\* lookup("Bearer " + t) returns the same result as lookup(t).
C28_LookupStripsPrefix == \A t \in TokenStrings : SameLookup(t)

\* C28 (amended): the same for every token string t that does not itself
\* start with "Bearer ".
C28_LookupStripsPrefixBare ==
    \A t \in TokenStrings : ~StartsWithBearer(t) => SameLookup(t)

\* token "a" is cached and the lookup of "Bearer a" finds its entry
C28_Witness ==
    /\ <<"a">> \in DOMAIN token_storage.tokens
    /\ <<Bearer, "a">> \notin DOMAIN token_storage.tokens
    /\ get_token_info(token_storage, <<Bearer, "a">>).user_id \in Users
    /\ SameLookup(<<"a">>)

\* remove_token has just been called.
RemoveStep == clock' = clock + 1 /\ storage_call'.op = "remove_token"

\* What remove_token(token) does to the two maps: a cached token loses its
\* entry, and its user the reverse-index entry exactly when that entry
\* names this token; everything else stays, and a token that is not cached
\* changes nothing.
RevokeMaps(token) ==
    LET st  == token_storage
        new == token_storage'
    IN  IF token \in DOMAIN st.tokens
        THEN LET user_id == st.tokens[token].user_id
                 current == Get(st.user_tokens, user_id, NoToken) = token
             IN  /\ DOMAIN new.tokens = DOMAIN st.tokens \ {token}
                 /\ \A t \in DOMAIN new.tokens : new.tokens[t] = st.tokens[t]
                 /\ DOMAIN new.user_tokens =
                        DOMAIN st.user_tokens
                            \ (IF current THEN {user_id} ELSE {})
                 /\ \A u \in DOMAIN new.user_tokens :
                        new.user_tokens[u] = st.user_tokens[u]
        ELSE new = st

\* C29 (as claimed): remove_token(token) of a cached token removes the token
\* entry and, if the token is its user's current mapping, the user's
\* reverse-index entry; afterwards the lookup of the token finds nothing;
\* remove_token of a token that is not cached changes nothing.
C29_Revoke ==
    [][RemoveStep =>
         /\ RevokeMaps(storage_call'.token)
         /\ storage_call'.token \in DOMAIN token_storage.tokens
              => get_token_info(token_storage', storage_call'.token) = NoEntry
      ]_vars

\* C29 (amended): the same, the lookup finding nothing afterwards when the
\* token does not start with "Bearer ".
C29_RevokeBare ==
    [][RemoveStep =>
         /\ RevokeMaps(storage_call'.token)
         /\ (/\ storage_call'.token \in DOMAIN token_storage.tokens
             /\ ~StartsWithBearer(storage_call'.token))
              => get_token_info(token_storage', storage_call'.token) = NoEntry
      ]_vars

\* the current token "a" of user 1 has been removed, the token of another
\* user staying cached
C29_Witness ==
    /\ storage_call.op = "remove_token"
    /\ storage_call.token = <<"a">>
    /\ storage_call.user_id = 1
    /\ 1 \notin DOMAIN token_storage.user_tokens
    /\ get_token_info(token_storage, <<"a">>) = NoEntry
    /\ 2 \in DOMAIN token_storage.user_tokens

\* C30: (requests one at a time) a finished update_account(id, data) has
\* failed with NotFound, nothing written, when account id is absent; and
\* when data carries no field and the account exists it has returned the
\* account's current row, having written and committed nothing.  Only a
\* failure of the store itself ends it otherwise.
C30_UpdateNotFoundOrNoop ==
    \A p \in Sessions :
        LET id == req[p].account_id
        IN  (/\ IsDone(p, "update")
             /\ req[p].outcome \notin {"StoreError", "ValidationError"})
            => /\ id \notin DOMAIN rows
                    => /\ req[p].outcome = "NotFound"
                       /\ applied[p] = NoApplied /\ tx[p] = NoTx
               /\ (id \in DOMAIN rows /\ req[p].balance = Unset)
                    => /\ req[p].outcome = "ok"
                       /\ req[p].rec = Rec(id, rows[id])
                       /\ applied[p] = NoApplied /\ tx[p] = NoTx

\* an update without fields has returned the row of an account holding money
C30_Witness ==
    \E p \in Sessions :
        /\ IsDone(p, "update") /\ req[p].outcome = "ok"
        /\ req[p].balance = Unset
        /\ req[p].rec.id = req[p].account_id
        /\ req[p].rec.balance = Cent
        /\ rows[req[p].account_id].balance = Cent

\* C31: every successful create_account, update_account (an update that
\* carries no field included), delete_account, deposit and withdraw has
\* called commit on its session exactly once.
C31_CommitOnce ==
    \A p \in Sessions :
        (/\ req[p].pc = "done" /\ req[p].outcome = "ok"
         /\ req[p].op \in {"create", "update", "delete", "deposit", "withdraw"})
        => req[p].commits = 1

\* C32: a call of get_token_validator made before initialize_token_validator
\* has run fails with the configuration error (RuntimeError: "TokenValidator
\* not initialized") and validates nothing; once initialize_token_validator
\* has run the validator stays set and every call returns it.
C32_InitializedBeforeUse ==
    [][/\ token_validator => token_validator'
       /\ (AuthStep /\ auth'.validator_calls = 1)
          => /\ ~token_validator
                  => /\ auth'.validator = "RuntimeError"
                     /\ auth'.validated = 0 /\ auth'.source = "none"
             /\ token_validator => auth'.validator = "TokenValidator"]_vars

\* a credential that is not cached was presented before the validator was
\* initialized
C32_Witness ==
    /\ ~token_validator
    /\ auth.validator = "RuntimeError"
    /\ auth.token = <<"b">>

\* C33: when the account row was deleted by another request between the
\* balance read of withdraw and its UPDATE (the UPDATE matched no row), the
\* withdraw fails with NotFound and commits no balance change.  Only a
\* failure of the store itself ends it otherwise.
C33_WithdrawRowVanished ==
    [][\A p \in Sessions :
         (/\ req[p].op = "withdraw" /\ req[p].pc = "w_commit"
          /\ req[p].rec = NoRec
          /\ req'[p].pc # "w_commit")
         => /\ req'[p].pc = "done"
            /\ req'[p].outcome \in {"NotFound", "StoreError"}
            /\ \A id \in DOMAIN rows \cap DOMAIN rows' :
                   rows'[id].balance = rows[id].balance
      ]_vars

\* C34: concurrent transfers in opposite directions between the same two
\* accounts never deadlock: every transfer in flight eventually ends, with
\* success or with an error.
C34_TransfersTerminate ==
    \A p \in Sessions :
        (req[p].op = "transfer" /\ req[p].pc \notin {"idle", "done"})
            ~> (req[p].op = "transfer" /\ req[p].pc = "done")

\* Session p has debited its source account a and waits to credit b.
Debited(p, a, b) ==
    /\ req[p].op = "transfer" /\ req[p].pc = "dep_upd"
    /\ req[p].account_id = a /\ req[p].to_account_id = b

\* two transfers in opposite directions between accounts 1 and 2 are both
\* between their debit and their credit
C34_Witness ==
    \E p, q \in Sessions : p # q /\ Debited(p, 1, 2) /\ Debited(q, 2, 1)

\* The sum of the amounts of the deposits made on the sessions of S.
RECURSIVE Deposited(_)
Deposited(S) ==
    IF S = {} THEN 0
    ELSE LET p == CHOOSE q \in S : TRUE
         IN  (IF req[p].op = "deposit" THEN req[p].amount ELSE 0)
                + Deposited(S \ {p})

\* Every deposit that was started has committed.
AllCommitted ==
    \A p \in Sessions :
        req[p].op = "deposit" => (req[p].pc = "done" /\ req[p].outcome = "ok")

\* C35 (as claimed): however concurrent deposits on the same existing
\* account interleave, once all of them have committed the balance equals
\* the initial balance (here 0) plus the sum of the deposited amounts.
C35_NoLostDeposit ==
    AllCommitted => rows[1].balance = 0 + Deposited(Sessions)

\* C35 (amended): the same for deposits of amounts of at most two decimal
\* places.
C35_NoLostDepositTwoPlaces ==
    (AllCommitted /\ \A p \in Sessions : TwoPlaces(req[p].amount))
        => rows[1].balance = 0 + Deposited(Sessions)

\* two deposits of one cent, on two sessions, have both committed
C35_Witness ==
    /\ AllCommitted
    /\ \E p, q \in Sessions :
         /\ p # q
         /\ IsDone(p, "deposit") /\ req[p].amount = Cent
         /\ IsDone(q, "deposit") /\ req[q].amount = Cent
    /\ rows[1].balance >= 2 * Cent

\* C36: after any sequence of store_token and remove_token calls the two
\* maps agree: every entry user -> token of the reverse index names a token
\* that is in the token map with that user as its identity.
C36_MapsAgree ==
    \A u \in DOMAIN token_storage.user_tokens :
        LET t == token_storage.user_tokens[u]
        IN  /\ t \in DOMAIN token_storage.tokens
            /\ token_storage.tokens[t].user_id = u

\* C37: a store for user u removes no token entry whose identity is another
\* user: every entry of another user, other than the one under the token
\* string being stored, is in the map afterwards as it was.
C37_StoreKeepsOthers ==
    [][StoreStep =>
         \A t \in DOMAIN token_storage.tokens :
             (/\ token_storage.tokens[t].user_id # storage_call'.user_id
              /\ t # storage_call'.token)
             => /\ t \in DOMAIN token_storage'.tokens
                /\ token_storage'.tokens[t] = token_storage.tokens[t]]_vars

\* C38: an account created through POST /accounts is owned by the
\* authenticated caller: the row created, and the account returned, carry
\* the caller's user_id whatever user_id the body carried.
C38_CreatedForCaller ==
    \A p \in Sessions :
        (IsDone(p, "create") /\ req[p].outcome = "ok" /\ req[p].caller # 0)
        => /\ req[p].rec.user_id = req[p].caller
           /\ req[p].rec.id \in DOMAIN rows
           /\ rows[req[p].rec.id].user_id = req[p].caller

\* a caller has created an account with a body naming another user
C38_Witness ==
    \E p \in Sessions :
        /\ IsDone(p, "create") /\ req[p].outcome = "ok"
        /\ req[p].caller = 1 /\ req[p].body_user_id = 2
        /\ rows[req[p].rec.id].user_id = 1

====
